---- MODULE Spec2Model ----
(***************************************************************************)
(* A model of src/src/matching2D_Student.cpp: the Harris keypoint          *)
(* extraction with its non-maximum-suppression loop (detKeypointsHarris),  *)
(* the descriptor matcher (matchDescriptors) and the detector selection    *)
(* of detKeypointsModern.                                                  *)
(*                                                                         *)
(* Numbers.  A value of the float response map dst_norm is held in tenths  *)
(* (1205 is 120.5), so that the cast (int) of line 157 is a real           *)
(* truncation.  A keypoint's response is the integer the cast produced.    *)
(***************************************************************************)
EXTENDS Integers, Sequences, FiniteSets, TLC

VARIABLES
    \* ---- detKeypointsHarris
    rows,        \* dst_norm.rows
    cols,        \* dst_norm.cols
    i,           \* row index of the outer loop (line 155)
    j,           \* column index of the inner loop (line 156)
    px,          \* dst_norm.at<float>(i, j), the pixel under the scan, in tenths
    keypoints,   \* the in/out parameter keypoints
    pc,          \* "scan" inside the loops, "done" after them, "idle" when not called
    strongest,   \* history: the first pixel, in scan order, of the largest response stored so far (<<>> or one record)
    nCand,       \* history: how many pixels passed the test of line 158 (2 stands for two or more)
    minResponse2,\* the threshold of the second run that scans the same map (threshold comparison)
    keypoints2,  \* the keypoint list of that second run
    img,         \* history: the values of dst_norm read by the first call, in scan order
    call,        \* 1 during the first call, 2 during the call that is handed the first call's list
    returned,    \* the list the first call returned
    \* ---- matchDescriptors
    descSource,  \* the rows of descSource, one descriptor each
    descRef,     \* the rows of descRef
    descriptorType, matcherType, selectorType,
    matchesIn,   \* the content of the in/out parameter matches on entry
    matches,     \* the in/out parameter matches
    knn_matches, \* the local knn_matches (line 39)
    it,          \* position of the iterator of the ratio-test loop (line 44), 1-based
    descDepth,   \* element type of descSource and descRef: "CV_8U" or "CV_32F"
    mpc,         \* "call", "ratio", "done", "fault" (undefined behaviour has happened), "idle"
    \* ---- detKeypointsModern
    detectorType,
    detector,    \* the handle detector: the name of the detector created, or "none" while unset
    bVis,
    found,       \* the in/out parameter keypoints of detKeypointsModern
    dpc          \* "select", "detect", "report", "show", "done", "fault", "idle"

harrisVars == <<rows, cols, i, j, px, keypoints, pc, strongest, nCand,
                minResponse2, keypoints2, img, call, returned>>
matchVars == <<descSource, descRef, descriptorType, matcherType, selectorType,
               matchesIn, matches, knn_matches, it, descDepth, mpc>>
modernVars == <<detectorType, detector, bVis, found, dpc>>
vars == <<harrisVars, matchVars, modernVars>>

None == "none"

(***************************************************************************)
(* Bounds of the model.                                                    *)
(***************************************************************************)
Rows == 2
Cols == 12
RerunRows == 1
RerunCols == 7
MaxSrc == 2
MaxRef == 2
MaxFound == 2

\* Values of the normalized response map the model draws from, in tenths:
\* 100.0, 120.5, 121.0, 130.5 and 150.0.
NormValues == {1000, 1205, 1210, 1305, 1500}
\* Thresholds above the configured one, for the second run of the comparison.
HigherThresholds == {125, 140}

(***************************************************************************)
(* detKeypointsHarris, lines 133-198.                                      *)
(***************************************************************************)
apertureSize == 3
minResponse == 120
maxOverlap == 0

\* (int) of a non-negative float held in tenths (line 157).
ToInt(v) == v \div 10

\* Line 158 with a threshold of less-or-equal in place of greater-than.
AboveThresholdGE(response, thr) == response >= thr
\* Line 158: response > minResponse.
AboveThreshold(response, thr) == response > thr

\* Lines 160-163: the candidate of pixel (row r, column c).
NewKeyPoint(r, c, response) ==
    [pt |-> <<c, r>>, size |-> 2 * apertureSize, response |-> response]

\* cv::KeyPoint::overlap as called on line 168, up to what line 169 reads of it
\* with maxOverlap = 0.0: the ratio is positive exactly when the two circles of
\* diameters size1 and size2 meet, which is when the distance of the centres is
\* less than the sum of the radii.  1 stands for every positive ratio.
overlap(kp1, kp2) ==
    LET dx == kp1.pt[1] - kp2.pt[1]
        dy == kp1.pt[2] - kp2.pt[2]
        s  == kp1.size + kp2.size
    IN  IF 4 * (dx * dx + dy * dy) < s * s THEN 1 ELSE 0

\* Line 171 with greater-or-equal in place of greater-than.
ReplacesGE(new, old) == new.response >= old.response
\* Line 171: newKeyPoint.response > (*it).response.
Replaces(new, old) == new.response > old.response

\* Lines 166-177: the loop over the list, from position k on.
RECURSIVE NmsLoop(_, _, _, _)
NmsLoop(kpts, new, k, bOverlap) ==
    IF k > Len(kpts)
    THEN [keypoints |-> kpts, bOverlap |-> bOverlap]
    ELSE IF overlap(new, kpts[k]) > maxOverlap
         THEN IF Replaces(new, kpts[k])
              THEN [keypoints |-> [kpts EXCEPT ![k] = new], bOverlap |-> TRUE]
              ELSE NmsLoop(kpts, new, k + 1, TRUE)
         ELSE NmsLoop(kpts, new, k + 1, bOverlap)

\* Lines 157-183: the body of the loops for pixel (r, c) of value v, with
\* threshold thr (minResponse in the code).
PixelBody(kpts, r, c, v, thr) ==
    LET response == ToInt(v)
    IN  IF AboveThreshold(response, thr)
        THEN LET new == NewKeyPoint(r, c, response)
                 res == NmsLoop(kpts, new, 1, FALSE)
             IN  IF ~res.bOverlap THEN Append(res.keypoints, new) ELSE res.keypoints
        ELSE kpts

\* The loop headers of lines 155-156: the pixel after (i, j), row-major.
LastPixel == i = rows - 1 /\ j = cols - 1
NextI == IF j = cols - 1 THEN i + 1 ELSE i
NextJ == IF j = cols - 1 THEN 0 ELSE j + 1

\* History of the scan: the first pixel of the largest integer response above
\* the configured threshold, and the number of pixels whose integer response
\* is above it.
StrongestAfter ==
    IF ToInt(px) > minResponse
       /\ (strongest = <<>> \/ ToInt(px) > ToInt(strongest[1].v))
    THEN <<[r |-> i, c |-> j, v |-> px]>>
    ELSE strongest
NCandAfter ==
    IF ToInt(px) > minResponse /\ nCand < 2 THEN nCand + 1 ELSE nCand

MatchIdle ==
    /\ descSource = <<>> /\ descRef = <<>>
    /\ descriptorType = None /\ matcherType = None /\ selectorType = None
    /\ matchesIn = <<>> /\ matches = <<>> /\ knn_matches = <<>>
    /\ it = 0 /\ descDepth = None /\ mpc = "idle"
ModernIdle ==
    /\ detectorType = None /\ detector = None /\ bVis = FALSE
    /\ found = <<>> /\ dpc = "idle"

\* Entry of detKeypointsHarris on an nr x nc map with an empty list.
HarrisEntry(nr, nc) ==
    /\ rows = nr /\ cols = nc
    /\ i = 0 /\ j = 0 /\ px \in NormValues
    /\ keypoints = <<>> /\ pc = "scan"
    /\ strongest = <<>> /\ nCand = 0
    /\ keypoints2 = <<>>
    /\ img = <<>> /\ call = 1 /\ returned = <<>>
    /\ MatchIdle /\ ModernIdle

\* The step of the loops of lines 155-156 to the next pixel, whose value is
\* any value of the map; after the last pixel the loops are left.
Advance ==
    IF LastPixel
    THEN pc' = "done" /\ UNCHANGED <<i, j, px>>
    ELSE pc' = "scan" /\ i' = NextI /\ j' = NextJ /\ px' \in NormValues

(***************************************************************************)
(* Spec: one call of detKeypointsHarris on a Rows x Cols response map,     *)
(* every pixel of which takes any value of NormValues.                     *)
(***************************************************************************)
Init == HarrisEntry(Rows, Cols) /\ minResponse2 = minResponse

\* One pass of the inner loop body (lines 157-183), and the step to the next pixel.
ScanPixel ==
    /\ pc = "scan"
    /\ keypoints' = PixelBody(keypoints, i, j, px, minResponse)
    /\ strongest' = StrongestAfter
    /\ nCand' = NCandAfter
    /\ Advance
    /\ UNCHANGED <<rows, cols, minResponse2, keypoints2, img, call, returned>>
    /\ UNCHANGED <<matchVars, modernVars>>

Next == ScanPixel

Spec == Init /\ [][Next]_vars

(***************************************************************************)
(* SpecThr: the same response map scanned by two runs that differ in the   *)
(* threshold alone, minResponse and a higher one, each from an empty list. *)
(***************************************************************************)
InitThr == HarrisEntry(Rows, Cols) /\ minResponse2 \in HigherThresholds

\* The loop body of both runs on the pixel under the scan.
ScanPixelPair ==
    /\ pc = "scan"
    /\ keypoints' = PixelBody(keypoints, i, j, px, minResponse)
    /\ keypoints2' = PixelBody(keypoints2, i, j, px, minResponse2)
    /\ Advance
    /\ UNCHANGED <<rows, cols, minResponse2, strongest, nCand, img, call, returned>>
    /\ UNCHANGED <<matchVars, modernVars>>

NextThr == ScanPixelPair

SpecThr == InitThr /\ [][NextThr]_vars

(***************************************************************************)
(* SpecRerun: a call on a RerunRows x RerunCols map from an empty list,    *)
(* then a second call on the same map that is handed the list the first    *)
(* call returned (the function never clears its in/out parameter).         *)
(***************************************************************************)
InitRerun == HarrisEntry(RerunRows, RerunCols) /\ minResponse2 = minResponse

\* The value of pixel (r, c) of the map the first call read.
ImgAt(r, c) == img[r * cols + c + 1]

\* First call: the loop body, with the value read kept for the second call.
ScanRecord ==
    /\ pc = "scan" /\ call = 1
    /\ keypoints' = PixelBody(keypoints, i, j, px, minResponse)
    /\ img' = Append(img, px)
    /\ Advance
    /\ UNCHANGED <<rows, cols, minResponse2, keypoints2, strongest, nCand, call, returned>>
    /\ UNCHANGED <<matchVars, modernVars>>

\* The caller calls again on the same image with the list it got back.
CallAgain ==
    /\ pc = "done" /\ call = 1
    /\ call' = 2 /\ returned' = keypoints
    /\ pc' = "scan" /\ i' = 0 /\ j' = 0 /\ px' = ImgAt(0, 0)
    /\ UNCHANGED <<rows, cols, minResponse2, keypoints, keypoints2, strongest, nCand, img>>
    /\ UNCHANGED <<matchVars, modernVars>>

\* Second call: the loop body on the pixels of the same map.
Rescan ==
    /\ pc = "scan" /\ call = 2
    /\ keypoints' = PixelBody(keypoints, i, j, px, minResponse)
    /\ IF LastPixel
       THEN pc' = "done" /\ UNCHANGED <<i, j, px>>
       ELSE pc' = "scan" /\ i' = NextI /\ j' = NextJ /\ px' = ImgAt(NextI, NextJ)
    /\ UNCHANGED <<rows, cols, minResponse2, keypoints2, strongest, nCand, img, call, returned>>
    /\ UNCHANGED <<matchVars, modernVars>>

NextRerun == ScanRecord \/ CallAgain \/ Rescan

SpecRerun == InitRerun /\ [][NextRerun]_vars

(***************************************************************************)
(* matchDescriptors, lines 7-50.                                           *)
(*                                                                         *)
(* A descriptor is one number: a one-byte binary descriptor, or a          *)
(* one-column float descriptor.  A match is a cv::DMatch, [queryIdx,       *)
(* trainIdx, distance], with 0-based indices.  The model covers calls with *)
(* at least one source and one reference descriptor.                       *)
(***************************************************************************)
DescValues == {0, 10, 15, 17, 20}
\* What the out-of-bounds read of an entry's element [1] may find as distance.
GarbageDistances == {0, 1000}
\* An entry the caller left in matches before the call.
StaleMatch == [queryIdx |-> 0, trainIdx |-> 0, distance |-> 3]

\* cv::NORM_HAMMING on one byte: the number of bits in which a and b differ.
RECURSIVE NormHamming(_, _)
NormHamming(a, b) ==
    IF a = 0 /\ b = 0 THEN 0
    ELSE (IF a % 2 # b % 2 THEN 1 ELSE 0) + NormHamming(a \div 2, b \div 2)
\* cv::NORM_L2 on one column.
NormL2(a, b) == IF a >= b THEN a - b ELSE b - a

\* Lines 14-29: the matcher created, as the norm it measures with ("none"
\* when matcherType is neither MAT_BF nor MAT_FLANN and the handle stays
\* unset).  The FLANN matcher measures L2 on the converted floats.
Matcher(mType, dType) ==
    IF mType = "MAT_BF"
    THEN (IF dType = "DES_BINARY" THEN "NORM_HAMMING" ELSE "NORM_L2")
    ELSE IF mType = "MAT_FLANN" THEN "NORM_L2"
    ELSE None

\* Lines 22-25: the element type of the descriptors after the configuration.
DepthAfter(mType, depth) == IF mType = "MAT_FLANN" THEN "CV_32F" ELSE depth

Distance(norm, a, b) == IF norm = "NORM_HAMMING" THEN NormHamming(a, b) ELSE NormL2(a, b)

\* The reference row nearest to the source descriptor q among those of rs,
\* the first of them on a tie (the library's search keeps the earlier row).
Nearest(norm, q, ref, rs) ==
    CHOOSE r \in rs : \A r2 \in rs :
        \/ Distance(norm, q, ref[r]) < Distance(norm, q, ref[r2])
        \/ Distance(norm, q, ref[r]) = Distance(norm, q, ref[r2]) /\ r <= r2

\* DescriptorMatcher::knnMatch (line 40) for one source row: the k nearest
\* reference rows in order of distance, or all of them when there are fewer.
RECURSIVE Neighbours(_, _, _, _, _, _)
Neighbours(norm, qIdx, q, ref, rs, k) ==
    IF k = 0 \/ rs = {} THEN <<>>
    ELSE LET r == Nearest(norm, q, ref, rs)
         IN  <<[queryIdx |-> qIdx, trainIdx |-> r - 1,
                distance |-> Distance(norm, q, ref[r])]>>
             \o Neighbours(norm, qIdx, q, ref, rs \ {r}, k - 1)

KnnMatch(norm, src, ref, k) ==
    [q \in 1..Len(src) |-> Neighbours(norm, q - 1, src[q], ref, 1..Len(ref), k)]

\* DescriptorMatcher::match (line 35): the output list is cleared and gets
\* the nearest reference row of every source row.
Match(norm, src, ref) ==
    [q \in 1..Len(src) |-> Neighbours(norm, q - 1, src[q], ref, 1..Len(ref), 1)[1]]

\* Line 45 with less-or-equal in place of less-than.
RatioTestLE(d1, d2) == 10 * d1 <= 8 * d2
\* Line 45: (*it)[0].distance < min_desc_dist_ratio * (*it)[1].distance, with
\* min_desc_dist_ratio = 0.8 (line 43), on whole-number distances.
RatioTest(d1, d2) == 10 * d1 < 8 * d2

ValidSeqs(S, n) == UNION {[1..m -> S] : m \in 1..n}

InitMatch ==
    /\ descSource \in ValidSeqs(DescValues, MaxSrc)
    /\ descRef \in ValidSeqs(DescValues, MaxRef)
    /\ descriptorType \in {"DES_BINARY", "DES_HOG"}
    /\ descDepth = (IF descriptorType = "DES_BINARY" THEN "CV_8U" ELSE "CV_32F")
    /\ matcherType \in {"MAT_BF", "MAT_FLANN", "MAT_KD"}
    /\ selectorType \in {"SEL_NN", "SEL_KNN", "SEL_ALL"}
    /\ matchesIn \in {<<>>, <<StaleMatch>>}
    /\ matches = matchesIn
    /\ knn_matches = <<>> /\ it = 0 /\ mpc = "call"
    /\ rows = 0 /\ cols = 0 /\ i = 0 /\ j = 0 /\ px = 0
    /\ keypoints = <<>> /\ pc = "idle" /\ strongest = <<>> /\ nCand = 0
    /\ minResponse2 = minResponse /\ keypoints2 = <<>>
    /\ img = <<>> /\ call = 1 /\ returned = <<>>
    /\ ModernIdle

matchIn == <<descSource, descRef, descriptorType, matcherType, selectorType, matchesIn>>

\* Lines 10-35: configuration, and the SEL_NN branch.
MatchNN ==
    /\ mpc = "call" /\ selectorType = "SEL_NN"
    /\ Matcher(matcherType, descriptorType) # None
    /\ descDepth' = DepthAfter(matcherType, descDepth)
    /\ matches' = Match(Matcher(matcherType, descriptorType), descSource, descRef)
    /\ mpc' = "done"
    /\ UNCHANGED <<matchIn, knn_matches, it>>
    /\ UNCHANGED <<harrisVars, modernVars>>

\* Lines 10-40: configuration, and the SEL_KNN branch up to the loop.
MatchKNN ==
    /\ mpc = "call" /\ selectorType = "SEL_KNN"
    /\ Matcher(matcherType, descriptorType) # None
    /\ descDepth' = DepthAfter(matcherType, descDepth)
    /\ knn_matches' = KnnMatch(Matcher(matcherType, descriptorType), descSource, descRef, 2)
    /\ it' = 1 /\ mpc' = "ratio"
    /\ UNCHANGED <<matchIn, matches>>
    /\ UNCHANGED <<harrisVars, modernVars>>

\* Lines 35 and 40 with the handle matcher unset: a call through a null pointer.
MatchNullDispatch ==
    /\ mpc = "call" /\ selectorType \in {"SEL_NN", "SEL_KNN"}
    /\ Matcher(matcherType, descriptorType) = None
    /\ mpc' = "fault"
    /\ UNCHANGED <<matchIn, matches, knn_matches, it, descDepth>>
    /\ UNCHANGED <<harrisVars, modernVars>>

\* Lines 32-49 for any other selector: neither branch is taken.
MatchNoSelector ==
    /\ mpc = "call" /\ selectorType \notin {"SEL_NN", "SEL_KNN"}
    /\ descDepth' = DepthAfter(matcherType, descDepth)
    /\ mpc' = "done"
    /\ UNCHANGED <<matchIn, matches, knn_matches, it>>
    /\ UNCHANGED <<harrisVars, modernVars>>

\* Lines 44-48: one pass of the loop on an entry that has both elements.
RatioStep ==
    /\ mpc = "ratio" /\ it <= Len(knn_matches)
    /\ Len(knn_matches[it]) >= 2
    /\ matches' = IF RatioTest(knn_matches[it][1].distance, knn_matches[it][2].distance)
                  THEN Append(matches, knn_matches[it][1])
                  ELSE matches
    /\ it' = it + 1
    /\ UNCHANGED <<matchIn, knn_matches, descDepth, mpc>>
    /\ UNCHANGED <<harrisVars, modernVars>>

\* Lines 44-48 on an entry of one element: (*it)[1] is read past the end of
\* the vector.  The read finds any distance, or the run is stopped.
RatioStepPastEnd ==
    /\ mpc = "ratio" /\ it <= Len(knn_matches)
    /\ Len(knn_matches[it]) < 2
    /\ \/ /\ \E g \in GarbageDistances :
               matches' = IF RatioTest(knn_matches[it][1].distance, g)
                          THEN Append(matches, knn_matches[it][1])
                          ELSE matches
          /\ it' = it + 1
          /\ UNCHANGED mpc
       \/ /\ mpc' = "fault"
          /\ UNCHANGED <<matches, it>>
    /\ UNCHANGED <<matchIn, knn_matches, descDepth>>
    /\ UNCHANGED <<harrisVars, modernVars>>

\* Line 44: the loop ends.
RatioEnd ==
    /\ mpc = "ratio" /\ it > Len(knn_matches)
    /\ mpc' = "done"
    /\ UNCHANGED <<matchIn, matches, knn_matches, it, descDepth>>
    /\ UNCHANGED <<harrisVars, modernVars>>

NextMatch ==
    \/ MatchNN \/ MatchKNN \/ MatchNullDispatch \/ MatchNoSelector
    \/ RatioStep \/ RatioStepPastEnd \/ RatioEnd

SpecMatch == InitMatch /\ [][NextMatch]_vars

(***************************************************************************)
(* detKeypointsModern, lines 201-243.                                      *)
(***************************************************************************)
DetectorNames ==
    {"FAST", "BRISK", "ORB", "AKAZE", "FREAK", "SIFT", "HARRIS", "SHITOMASI", "fast", ""}
\* A keypoint the library's detector reports, and one the caller left in the list.
LibKeyPoint == [pt |-> <<1, 1>>, size |-> 7, response |-> 80]
StaleKeyPoint == [pt |-> <<0, 0>>, size |-> 4, response |-> 0]

\* Lines 205-228 with the creation of line 224 active.
SelectDetectorWithSift(type) ==
    IF type \in {"FAST", "BRISK", "ORB", "AKAZE", "SIFT"} THEN type ELSE None
\* Lines 205-228: the detector the chain of comparisons creates, "none" when
\* no branch creates one.
SelectDetector(type) ==
    IF "FAST" = type THEN "FAST"
    ELSE IF "BRISK" = type THEN "BRISK"
    ELSE IF "ORB" = type THEN "ORB"
    ELSE IF "AKAZE" = type THEN "AKAZE"
    ELSE IF "FREAK" = type THEN None
    ELSE IF "SIFT" = type THEN None
    ELSE None

InitModern ==
    /\ detectorType \in DetectorNames
    /\ bVis \in BOOLEAN
    /\ found \in {<<>>, <<StaleKeyPoint>>}
    /\ detector = None /\ dpc = "select"
    /\ rows = 0 /\ cols = 0 /\ i = 0 /\ j = 0 /\ px = 0
    /\ keypoints = <<>> /\ pc = "idle" /\ strongest = <<>> /\ nCand = 0
    /\ minResponse2 = minResponse /\ keypoints2 = <<>>
    /\ img = <<>> /\ call = 1 /\ returned = <<>>
    /\ MatchIdle

\* Lines 203-230: the selection chain, up to the dispatch.
Select ==
    /\ dpc = "select"
    /\ detector' = SelectDetector(detectorType)
    /\ dpc' = "detect"
    /\ UNCHANGED <<detectorType, bVis, found>>
    /\ UNCHANGED <<harrisVars, matchVars>>

\* Line 231 on a set handle: the library's detector fills the list.
Detect ==
    /\ dpc = "detect" /\ detector # None
    /\ \E n \in 0..MaxFound : found' = [k \in 1..n |-> LibKeyPoint]
    /\ dpc' = "report"
    /\ UNCHANGED <<detectorType, detector, bVis>>
    /\ UNCHANGED <<harrisVars, matchVars>>

\* Line 231 on the unset handle: a call through a null pointer.
DetectNullDispatch ==
    /\ dpc = "detect" /\ detector = None
    /\ dpc' = "fault"
    /\ UNCHANGED <<detectorType, detector, bVis, found>>
    /\ UNCHANGED <<harrisVars, matchVars>>

\* Lines 232-235: the timing line is printed.
Report ==
    /\ dpc = "report"
    /\ dpc' = IF bVis THEN "show" ELSE "done"
    /\ UNCHANGED <<detectorType, detector, bVis, found>>
    /\ UNCHANGED <<harrisVars, matchVars>>

\* Lines 236-241: the keypoints are drawn.
Show ==
    /\ dpc = "show"
    /\ dpc' = "done"
    /\ UNCHANGED <<detectorType, detector, bVis, found>>
    /\ UNCHANGED <<harrisVars, matchVars>>

NextModern == Select \/ Detect \/ DetectNullDispatch \/ Report \/ Show

SpecModern == InitModern /\ [][NextModern]_vars

(***************************************************************************)
(* Claims about detKeypointsHarris.                                        *)
(***************************************************************************)
\* The candidate the loop body builds for the pixel under the scan.
Candidate == [pt |-> <<j, i>>, size |-> 2 * apertureSize, response |-> px \div 10]
\* The keypoint of a recorded pixel.
KeyPointOf(p) == [pt |-> <<p.c, p.r>>, size |-> 2 * apertureSize, response |-> p.v \div 10]
\* No two distinct entries of the list overlap by more than maxOverlap.
NoOverlappingPair(kpts) ==
    \A a, b \in 1..Len(kpts) : a # b => overlap(kpts[a], kpts[b]) <= maxOverlap
\* The positions of the list whose entry the candidate overlaps by more than maxOverlap.
Overlapped(kpts, new) == {k \in 1..Len(kpts) : overlap(new, kpts[k]) > maxOverlap}

\* C1: the list detKeypointsHarris returns, when it starts from an empty
\* list, holds no two distinct keypoints that overlap by more than maxOverlap.
C1_ResultHasNoOverlap == pc = "done" => NoOverlappingPair(keypoints)

\* C2: on the same response map, the run with the higher threshold returns
\* at most as many keypoints as the run with the lower threshold.
C2_CountMonotoneInThreshold == pc = "done" => Len(keypoints2) <= Len(keypoints)

\* C3: a second call on the same image, handed the list the first call
\* returned, leaves that list identical (same keypoints, same order).
C3_RerunIsIdentity == (pc = "done" /\ call = 2) => keypoints = returned

\* C6 as stated: a pixel is a candidate exactly when its normalized response
\* exceeds 120, and the candidate carries (x, y) = (column, row), size
\* 2 * apertureSize and the normalized value as response; seen on an empty
\* list, where a candidate is the single entry afterwards.
C6_ExceedsThresholdIsCandidate ==
    [][(pc = "scan" /\ keypoints = <<>>) =>
         IF px > 10 * minResponse
         THEN /\ Len(keypoints') = 1
              /\ keypoints'[1].pt = <<j, i>>
              /\ keypoints'[1].size = 2 * apertureSize
              /\ 10 * keypoints'[1].response = px
         ELSE keypoints' = <<>>]_vars

\* C6 amended: a pixel is a candidate exactly when the integer part of its
\* normalized response exceeds 120: then the candidate (x = column, y = row,
\* size 2 * apertureSize, response the integer part) is the single entry if
\* the list was empty, and is the only entry a change of the list brings in;
\* any other pixel leaves the list as it is.  With exactly one such pixel
\* the call returns exactly the keypoint of that pixel.
C6_IntegerPartIsCandidate ==
    /\ [][pc = "scan" =>
            IF px \div 10 > minResponse
            THEN /\ keypoints = <<>> => keypoints' = <<Candidate>>
                 /\ keypoints' # keypoints =>
                      \/ keypoints' = Append(keypoints, Candidate)
                      \/ \E k \in 1..Len(keypoints) :
                            keypoints' = [keypoints EXCEPT ![k] = Candidate]
            ELSE keypoints' = keypoints]_vars
    /\ []((pc = "done" /\ nCand = 1) => keypoints = <<KeyPointOf(strongest[1])>>)
\* A call that met exactly one pixel above the threshold, away from the first
\* pixel, with a pixel of a fractional value not above it (120.5) before.
C6_Witness ==
    /\ pc = "done" /\ nCand = 1 /\ Len(keypoints) = 1
    /\ keypoints[1].pt # <<0, 0>>

\* C8: a candidate that overlaps an incumbent by more than maxOverlap and
\* whose response is not strictly greater than that incumbent's is dropped,
\* the list staying as it was; and the only incumbent a candidate ever
\* replaces is the first one it overlaps, in list order.
C8_NotGreaterIsDropped ==
    [][(pc = "scan" /\ px \div 10 > minResponse) =>
         /\ (\E k \in Overlapped(keypoints, Candidate) :
                ~(Candidate.response > keypoints[k].response))
              => keypoints' = keypoints
         /\ \A k \in 1..Len(keypoints) :
              keypoints'[k] # keypoints[k] =>
                 \A m \in Overlapped(keypoints, Candidate) : k <= m]_vars

\* C10: from an empty list, the first pixel in scan order of the largest
\* response above the threshold has its keypoint in the list from the step
\* that processes it on, through every later step and in the returned list.
C10_StrongestSurvives ==
    strongest # <<>> => \E k \in 1..Len(keypoints) : keypoints[k] = KeyPointOf(strongest[1])
\* A finished call in which the strongest pixel came after another pixel
\* above the threshold and a later pixel had the same response.
C10_Witness ==
    /\ pc = "done" /\ nCand = 2 /\ Len(keypoints) >= 2
    /\ strongest[1].r = 0 /\ strongest[1].c > 0
    /\ keypoints[1] = KeyPointOf(strongest[1])
    /\ \E k \in 2..Len(keypoints) : keypoints[k].response = keypoints[1].response

(***************************************************************************)
(* Claims about matchDescriptors.                                          *)
(***************************************************************************)
\* The distance the matcher of the call measures between source row q and
\* reference row r (1-based).
Dist(q, r) == Distance(Matcher(matcherType, descriptorType), descSource[q], descRef[r])
\* Source row q has a reference row whose distance is below 0.8 times the
\* distance of every other reference row: d1 < 0.8 * d2 for its two nearest.
PassesRatio(q) ==
    \E r \in 1..Len(descRef) : \A r2 \in 1..Len(descRef) \ {r} : 10 * Dist(q, r) < 8 * Dist(q, r2)
\* What the call appended to the list it was handed.
Added == SubSeq(matches, Len(matchesIn) + 1, Len(matches))

\* C4: with SEL_KNN and at least two reference descriptors, the list after
\* the call is the list on entry followed, in source order, by the best
\* match of exactly those source descriptors whose nearest distance d1 and
\* second-nearest distance d2 satisfy d1 < 0.8 * d2; (10, 20) passes the
\* test and (15, 17) does not.
C4_RatioTestSelectsMatches ==
    /\ RatioTest(10, 20) /\ ~RatioTest(15, 17)
    /\ (mpc = "done" /\ selectorType = "SEL_KNN" /\ Len(descRef) >= 2) =>
         /\ Len(matches) >= Len(matchesIn)
         /\ SubSeq(matches, 1, Len(matchesIn)) = matchesIn
         /\ \A a, b \in 1..Len(Added) : a < b => Added[a].queryIdx < Added[b].queryIdx
         /\ \A q \in 1..Len(descSource) :
               PassesRatio(q) <=> \E a \in 1..Len(Added) : Added[a].queryIdx = q - 1
         /\ \A a \in 1..Len(Added) :
               LET q == Added[a].queryIdx + 1
                   r == Added[a].trainIdx + 1
               IN  /\ q \in 1..Len(descSource) /\ r \in 1..Len(descRef)
                   /\ Added[a].distance = Dist(q, r)
                   /\ \A r2 \in 1..Len(descRef) : Dist(q, r) <= Dist(q, r2)
\* A finished SEL_KNN call with distances (10, 20) for the first source
\* descriptor, accepted, and (5, 5) for the second, rejected.
C4_Witness ==
    /\ mpc = "done" /\ selectorType = "SEL_KNN"
    /\ matcherType = "MAT_BF" /\ descriptorType = "DES_HOG"
    /\ descSource = <<0, 15>> /\ descRef = <<20, 10>>
    /\ matchesIn = <<StaleMatch>>
    /\ matches = <<StaleMatch, [queryIdx |-> 0, trainIdx |-> 1, distance |-> 10]>>

\* C5: whatever the list holds on entry, the list after a SEL_KNN call is no
\* longer than the list after a SEL_NN call on the same descriptors and the
\* same list.
C5_KnnCountAtMostNnCount ==
    (mpc = "done" /\ selectorType = "SEL_KNN") =>
        Len(matches) <= Len(Match(Matcher(matcherType, descriptorType), descSource, descRef))

\* C9: whenever the ratio-test loop is about to read element [1] of an entry
\* of knn_matches, that entry has at least two elements.
C9_SecondNeighbourExists ==
    (mpc = "ratio" /\ it <= Len(knn_matches)) => Len(knn_matches[it]) >= 2

(***************************************************************************)
(* Claims about detKeypointsModern.                                        *)
(***************************************************************************)
\* C7: the selection chain is always followed by the dispatch of detect,
\* with no return or error of the function's own before it, and at the
\* dispatch the handle is set exactly when detectorType is FAST, BRISK, ORB
\* or AKAZE; for every other string, FREAK and SIFT included, detect is
\* dispatched on the unset handle.
C7_HandleSetIffCreatingName ==
    /\ [][dpc = "select" => dpc' = "detect"]_vars
    /\ [](dpc = "detect" =>
            (detector # None <=> detectorType \in {"FAST", "BRISK", "ORB", "AKAZE"}))
    /\ [][(dpc = "detect" /\ detectorType \notin {"FAST", "BRISK", "ORB", "AKAZE"})
            => (detector = None /\ dpc' = "fault")]_vars
\* detect has been dispatched on the unset handle for SIFT.
C7_Witness == dpc = "fault" /\ detectorType = "SIFT" /\ detector = None

====
